---- MODULE Spec2Model ----
(***************************************************************************)
(* LightRAG API server (lightrag/api/lightrag_server.py).                  *)
(*                                                                         *)
(* Three parts of create_app are modelled:                                 *)
(*   - the startup/shutdown hook `lifespan`, run by every worker process   *)
(*     of one deployment against the shared pipeline_status namespace;     *)
(*   - the selection of the LLM and embedding callables and of the keyword *)
(*     arguments handed to the RAG core;                                   *)
(*   - the /login and /auth-status handlers.                               *)
(***************************************************************************)
EXTENDS Integers, FiniteSets, Sequences, TLC

\* Number of worker processes of the deployment.
NumWorkers == 3

Workers == 1..NumWorkers

\* Python's None, where the model needs it as a value among strings.
None == "None"

VARIABLES
    args,                  \* the parsed command line: bindings, flags, embedding defaults
    custom_module,         \* what run_lightrag_gemini_jina.py provides, if importable
    accounts,              \* auth_handler.accounts: username -> password
    auto_scan_at_startup,  \* args.auto_scan_at_startup of each worker
    pc,                    \* each worker's position in create_app / lifespan
    app,                   \* each worker's outcome of create_app
    pipeline_status,       \* the shared "pipeline_status" namespace (a dict)
    lock_holder,           \* the worker inside `async with get_pipeline_status_lock()`, or 0
    should_start_autoscan, \* lifespan's local of that name, per worker
    background_tasks,      \* app.state.background_tasks, per worker
    task,                  \* the state of the scan task each worker created
    created,               \* how many scan tasks each worker has created
    storages,              \* the state of each worker's storage connections
    finalize_calls,        \* how often each worker called rag.finalize_storages()
    yielded,               \* whether the worker's lifespan reached its yield
    raised,                \* the call whose error is propagating out of the worker's lifespan, or None
    request,               \* the last request served by /login or /auth-status
    response               \* its response

vars == <<args, custom_module, accounts, auto_scan_at_startup, pc, app,
          pipeline_status, lock_holder, should_start_autoscan, background_tasks,
          task, created, storages, finalize_calls, yielded, raised,
          request, response>>

----------------------------------------------------------------------------
(* Binding selection in create_app.                                        *)

supported_llm_bindings ==
    {"lollms", "ollama", "openai", "openai-ollama", "azure_openai", "gemini"}

supported_embedding_bindings ==
    {"lollms", "ollama", "openai", "azure_openai", "gemini", "jina"}

\* The values args.llm_binding and args.embedding_binding are drawn from:
\* every supported one and one that is in neither list.
LLMBindingValues == supported_llm_bindings \cup {"custom"}
EmbeddingBindingValues == supported_embedding_bindings \cup {"custom"}

\* args.embedding_dim and args.max_embed_tokens, the statically configured defaults.
EmbeddingDimValues == {1024}
MaxEmbedTokensValues == {8192}

ArgsValues ==
    [llm_binding : LLMBindingValues,
     embedding_binding : EmbeddingBindingValues,
     use_custom_bindings : BOOLEAN,
     embedding_dim : EmbeddingDimValues,
     max_embed_tokens : MaxEmbedTokensValues]

\* jina_embedding_func as imported: None, a raw callable, or an EmbeddingFunc
\* instance that carries its own embedding_dim and max_token_size.
JinaFuncValues ==
    {[kind |-> None, embedding_dim |-> 0, max_token_size |-> 0],
     [kind |-> "callable", embedding_dim |-> 0, max_token_size |-> 0],
     [kind |-> "EmbeddingFunc", embedding_dim |-> 768, max_token_size |-> 4096]}

\* The constants run_lightrag_gemini_jina.py may declare: a namespace holding
\* JINA_EMBEDDING_DIM, JINA_MAX_TOKEN_SIZE, both or neither.
JinaConstantNames == {"JINA_EMBEDDING_DIM", "JINA_MAX_TOKEN_SIZE"}
JinaConstantValue(n) == IF n = "JINA_EMBEDDING_DIM" THEN 512 ELSE 2048
JinaConstantValues ==
    {[n \in D |-> JinaConstantValue(n)] : D \in SUBSET JinaConstantNames}

\* The except-branch of the module-level import: nothing was imported.
NotImportable ==
    [custom_functions_available |-> FALSE,
     gemini_llm_complete_func |-> None,
     jina_embedding_func |-> [kind |-> None, embedding_dim |-> 0, max_token_size |-> 0],
     constants |-> [n \in {} |-> 0]]

CustomModuleValues ==
    {NotImportable} \cup
    [custom_functions_available : {TRUE},
     gemini_llm_complete_func : {None, "gemini_llm_complete_func"},
     jina_embedding_func : JinaFuncValues,
     constants : JinaConstantValues]

\* Mutant: the check of lines 110-111 is missing.
BindingsSupportedLLMOnly(a) == a.llm_binding \in supported_llm_bindings

\* Lines 107-111: both bindings are in their supported list.
BindingsSupported(a) ==
    /\ a.llm_binding \in supported_llm_bindings
    /\ a.embedding_binding \in supported_embedding_bindings

ValidationError(a) ==
    IF a.llm_binding \notin supported_llm_bindings
        THEN "Unsupported llm binding"
    ELSE IF a.embedding_binding \notin supported_embedding_bindings
        THEN "Unsupported embedding binding"
    ELSE None

\* Mutant: line 295 without `args.use_custom_bindings and`.
CustomLLMSelectedIgnoringFlag(a, m) ==
    m.custom_functions_available /\ m.gemini_llm_complete_func # None

\* Line 295: the condition under which the custom completion function is used.
CustomLLMSelected(a, m) ==
    /\ a.use_custom_bindings
    /\ m.custom_functions_available
    /\ m.gemini_llm_complete_func # None

\* Line 317: the same for the custom embedding function.
CustomEmbeddingSelected(a, m) ==
    /\ a.use_custom_bindings
    /\ m.custom_functions_available
    /\ m.jina_embedding_func.kind # None

\* Lines 302-314: the if/elif chain over args.llm_binding; None stands for
\* the else branch, which raises.
ProviderLLMFunc(b) ==
    CASE b = "lollms" -> "lollms_model_complete"
      [] b = "ollama" -> "ollama_model_complete"
      [] b = "openai" -> "openai_alike_model_complete"
      [] b = "azure_openai" -> "azure_openai_model_complete"
      [] b = "gemini" -> "gemini_complete"
      [] OTHER -> None

\* Lines 294-314.
LLMSelection(a, m) ==
    IF CustomLLMSelected(a, m)
    THEN [func |-> "gemini_llm_complete_func", warnings |-> {}, error |-> None]
    ELSE LET w == IF a.use_custom_bindings
                     /\ ~(m.custom_functions_available
                          /\ m.gemini_llm_complete_func # None)
                  THEN {"custom LLM function is not available"}
                  ELSE {}
             f == ProviderLLMFunc(a.llm_binding)
         IN  [func |-> f,
              warnings |-> w,
              error |-> IF f = None
                        THEN "Unsupported or misconfigured llm_binding"
                        ELSE None]

\* Lines 345-380: the if/elif chain over args.embedding_binding.
ProviderEmbedFunc(b) ==
    CASE b = "lollms" -> "lollms_embed"
      [] b = "ollama" -> "ollama_embed"
      [] b = "azure_openai" -> "azure_openai_embed"
      [] b = "openai" -> "openai_embed"
      [] b = "gemini" -> "gemini_embed"
      [] OTHER -> None

NoEmbeddingFunc == [embedding_dim |-> 0, max_token_size |-> 0, func |-> None]

\* Mutant: the declared constants are never looked up.
JinaMetadataFromArgs(a, m) ==
    [embedding_dim |-> a.embedding_dim,
     max_token_size |-> a.max_embed_tokens,
     warnings |-> {"JINA_EMBEDDING_DIM or JINA_MAX_TOKEN_SIZE not found"}]

\* Lines 325-333: `from run_lightrag_gemini_jina import JINA_EMBEDDING_DIM,
\* JINA_MAX_TOKEN_SIZE` raises ImportError unless both names exist.
JinaMetadata(a, m) ==
    IF {"JINA_EMBEDDING_DIM", "JINA_MAX_TOKEN_SIZE"} \subseteq DOMAIN m.constants
    THEN [embedding_dim |-> m.constants["JINA_EMBEDDING_DIM"],
          max_token_size |-> m.constants["JINA_MAX_TOKEN_SIZE"],
          warnings |-> {}]
    ELSE [embedding_dim |-> a.embedding_dim,
          max_token_size |-> a.max_embed_tokens,
          warnings |-> {"JINA_EMBEDDING_DIM or JINA_MAX_TOKEN_SIZE not found"}]

\* Lines 316-389.
EmbeddingSelection(a, m) ==
    IF CustomEmbeddingSelected(a, m)
    THEN IF m.jina_embedding_func.kind = "EmbeddingFunc"
         THEN [func |-> [embedding_dim |-> m.jina_embedding_func.embedding_dim,
                         max_token_size |-> m.jina_embedding_func.max_token_size,
                         func |-> "jina_embedding_func.func"],
               warnings |-> {},
               error |-> None]
         ELSE LET meta == JinaMetadata(a, m)
              IN  [func |-> [embedding_dim |-> meta.embedding_dim,
                             max_token_size |-> meta.max_token_size,
                             func |-> "jina_embedding_func"],
                   warnings |-> meta.warnings,
                   error |-> None]
    ELSE LET w == IF a.use_custom_bindings
                     /\ ~(m.custom_functions_available
                          /\ m.jina_embedding_func.kind # None)
                  THEN {"custom Jina embedding function is not available"}
                  ELSE {}
             f == ProviderEmbedFunc(a.embedding_binding)
         IN  IF f = None
             THEN [func |-> NoEmbeddingFunc,
                   warnings |-> w,
                   error |-> "Unsupported or misconfigured embedding_binding"]
             ELSE [func |-> [embedding_dim |-> a.embedding_dim,
                             max_token_size |-> a.max_embed_tokens,
                             func |-> f],
                   warnings |-> w,
                   error |-> None]

\* Mutant: the pops of lines 410-412 are missing for gemini.
llm_kwargs_without_pops(a, m) ==
    IF ~CustomLLMSelected(a, m)
    THEN IF a.llm_binding = "azure_openai"
         THEN {"host", "timeout", "options", "api_key", "api_version"}
                  \ {"host", "api_key"}
         ELSE {"host", "timeout", "options", "api_key"}
    ELSE {"timeout"}

\* Lines 392-417: the keys of llm_kwargs_for_rag.
llm_kwargs_for_rag(a, m) ==
    IF ~CustomLLMSelected(a, m)
    THEN LET base == {"host", "timeout", "options", "api_key"}
         IN  IF a.llm_binding = "azure_openai"
             THEN (base \cup {"api_version"}) \ {"host", "api_key"}
             ELSE IF a.llm_binding = "gemini"
             THEN base \ {"host", "api_key", "options"}
             ELSE base
    ELSE {"timeout"}

\* A worker's app before create_app ran.
NoApp ==
    [status |-> "none", error |-> None, final_llm_func_to_use |-> None,
     final_embedding_func_to_use |-> NoEmbeddingFunc,
     llm_kwargs_for_rag |-> {}, warnings |-> {}]

\* create_app, lines 97-459: the app with its resolved bindings, or the
\* error raised, with the locals as they stood when it was raised.
CreateAppResult(a, m) ==
    LET l == LLMSelection(a, m)
        e == EmbeddingSelection(a, m)
    IN  IF ~BindingsSupported(a)
        THEN [NoApp EXCEPT !.status = "error", !.error = ValidationError(a)]
        ELSE IF l.error # None
        THEN [NoApp EXCEPT !.status = "error", !.error = l.error,
                           !.warnings = l.warnings]
        ELSE IF e.error # None
        THEN [NoApp EXCEPT !.status = "error", !.error = e.error,
                           !.final_llm_func_to_use = l.func,
                           !.warnings = l.warnings \cup e.warnings]
        ELSE [status |-> "ok", error |-> None,
              final_llm_func_to_use |-> l.func,
              final_embedding_func_to_use |-> e.func,
              llm_kwargs_for_rag |-> llm_kwargs_for_rag(a, m),
              warnings |-> l.warnings \cup e.warnings]

----------------------------------------------------------------------------
(* The shared namespace and the startup/shutdown hook.                     *)

\* dict.get(key, default)
Get(d, k, default) == IF k \in DOMAIN d THEN d[k] ELSE default

\* dict.update(other)
Update(d, other) ==
    [k \in DOMAIN d \cup DOMAIN other |-> IF k \in DOMAIN other THEN other[k] ELSE d[k]]

EmptyDict == [k \in {} |-> FALSE]

\* initialize_pipeline_status() of lightrag.kg.shared_storage: a no-op on a
\* namespace that is initialized, else it creates the zero-valued record.
initialize_pipeline_status(ps) ==
    IF "busy" \in DOMAIN ps
    THEN ps
    ELSE Update(ps, [k \in {"autoscanned", "busy"} |-> FALSE])

\* Mutant: line 154's test of "autoscanned" is missing.
ShouldStartIgnoringStatus(ps, auto) == auto

\* Mutant: line 153's test of args.auto_scan_at_startup is missing.
ShouldStartIgnoringFlag(ps, auto) == ~Get(ps, "autoscanned", FALSE)

\* Lines 153-154: whether this worker is the one that starts the scan.
ShouldStart(ps, auto) == auto /\ ~Get(ps, "autoscanned", FALSE)

\* Mutant: "autoscanned" is assigned the outcome of the test, so a worker
\* that finds it set clears it.
CheckAndSetAssigningOutcome(ps, auto) ==
    IF auto
    THEN Update(ps, [k \in {"autoscanned"} |-> ShouldStart(ps, auto)])
    ELSE ps

\* Lines 153-155: pipeline_status after the body of the lock block.
CheckAndSet(ps, auto) ==
    IF ShouldStart(ps, auto)
    THEN Update(ps, [k \in {"autoscanned"} |-> TRUE])
    ELSE ps

\* The scan task of worker w, and the states of an asyncio task.
TaskOf(w) == w
TerminalStates == {"finished", "failed", "cancelled"}

\* create_app(args) in worker w.
CreateApp(w) ==
    /\ pc[w] = "new"
    /\ app' = [app EXCEPT ![w] = CreateAppResult(args, custom_module)]
    /\ pc' = [pc EXCEPT ![w] = IF app'[w].status = "ok" THEN "app" ELSE "config_error"]
    /\ UNCHANGED <<args, custom_module, accounts, auto_scan_at_startup,
                   pipeline_status, lock_holder, should_start_autoscan,
                   background_tasks, task, created, storages, finalize_calls,
                   yielded, request, response,
                   raised>>

\* Mutant: an error in the try block is swallowed and the hook goes on.
OnErrorGoOn(ok, next) == next

\* Mutant: the try block has no finally; an error leaves the hook at once.
OnErrorLeave(ok, next) == IF ok THEN next ELSE "stopped"

\* Lines 143-172, try/finally: where the hook continues after an awaited
\* call of the try block returned (ok) or raised.
OnError(ok, next) == IF ok THEN next ELSE "finally"

\* Lines 141-145: the hook starts; rag.initialize_storages() returns or raises.
InitializeStorages(w) ==
    /\ pc[w] = "app"
    /\ background_tasks' = [background_tasks EXCEPT ![w] = {}]
    /\ \E ok \in BOOLEAN :
        /\ storages' = [storages EXCEPT ![w] = IF ok THEN "initialized" ELSE @]
        /\ raised' = [raised EXCEPT ![w] = IF ok THEN @ ELSE "initialize_storages"]
        /\ pc' = [pc EXCEPT ![w] = OnError(ok, "init_status")]
    /\ UNCHANGED <<args, custom_module, accounts, auto_scan_at_startup, app,
                   pipeline_status, lock_holder, should_start_autoscan,
                   task, created, finalize_calls, yielded, request, response>>

\* Lines 147-150: initialize_pipeline_status() and get_namespace_data()
\* return or raise; should_start_autoscan = False.
InitializePipelineStatus(w) ==
    /\ pc[w] = "init_status"
    /\ \E ok \in BOOLEAN :
        /\ pipeline_status' = IF ok THEN initialize_pipeline_status(pipeline_status)
                                    ELSE pipeline_status
        /\ raised' = [raised EXCEPT ![w] = IF ok THEN @ ELSE "pipeline_status"]
        /\ pc' = [pc EXCEPT ![w] = OnError(ok, "lock")]
    /\ should_start_autoscan' = [should_start_autoscan EXCEPT ![w] = FALSE]
    /\ UNCHANGED <<args, custom_module, accounts, auto_scan_at_startup, app,
                   lock_holder, background_tasks, task, created, storages,
                   finalize_calls, yielded, request, response>>

\* get_pipeline_status_lock() of lightrag.kg.shared_storage: a mutual
\* exclusion lock shared by the workers; it is granted when no worker holds it.
LockFree == lock_holder = 0

\* Line 151: entering `async with get_pipeline_status_lock()`.
AcquireLock(w) ==
    /\ pc[w] = "lock"
    /\ LockFree
    /\ lock_holder' = w
    /\ pc' = [pc EXCEPT ![w] = "locked"]
    /\ UNCHANGED <<args, custom_module, accounts, auto_scan_at_startup, app,
                   pipeline_status, should_start_autoscan, background_tasks,
                   task, created, storages, finalize_calls, yielded, request,
                   response,
                   raised>>

\* Mutant: the lock is released by a plain release() after the body, which
\* an error raised in the body skips.
LockAfterBlockKeptOnError(w, ok) == IF ok THEN 0 ELSE w

\* Line 151, `async with`: the holder of the lock once worker w has left the
\* block, normally (ok) or by an error raised in it.
LockAfterBlock(w, ok) == 0

\* Lines 152-156: the body of the lock block and the release of the lock
\* when the block is left, normally or by an error raised in it.
CheckAndSetUnderLock(w) ==
    /\ pc[w] = "locked"
    /\ lock_holder = w
    /\ \E ok \in BOOLEAN :
        /\ lock_holder' = LockAfterBlock(w, ok)
        /\ pipeline_status' =
              IF ok THEN CheckAndSet(pipeline_status, auto_scan_at_startup[w])
                    ELSE pipeline_status
        /\ should_start_autoscan' =
              [should_start_autoscan EXCEPT
                  ![w] = ok /\ ShouldStart(pipeline_status, auto_scan_at_startup[w])]
        /\ raised' = [raised EXCEPT ![w] = IF ok THEN @ ELSE "lock_block"]
        /\ pc' = [pc EXCEPT ![w] = OnError(ok, "after_lock")]
    /\ UNCHANGED <<args, custom_module, accounts, auto_scan_at_startup, app,
                   background_tasks, task, created, storages, finalize_calls,
                   yielded, request, response>>

\* Mutant: line 162 is missing, the task is not registered.
AddNothing(tasks, t) == tasks

\* set.add
Add(tasks, t) == tasks \cup {t}

\* Mutant: the hook awaits the task it created before it yields.
StartAutoscanAwaitingTask(w) ==
    /\ pc[w] = "after_lock"
    /\ IF should_start_autoscan[w]
       THEN /\ task' = [task EXCEPT ![w] = "running"]
            /\ created' = [created EXCEPT ![w] = @ + 1]
            /\ background_tasks' = [background_tasks EXCEPT ![w] = Add(@, TaskOf(w))]
            /\ pc' = [pc EXCEPT ![w] = "awaiting_task"]
            /\ UNCHANGED yielded
       ELSE /\ yielded' = [yielded EXCEPT ![w] = TRUE]
            /\ pc' = [pc EXCEPT ![w] = "ready"]
            /\ UNCHANGED <<task, created, background_tasks>>
    /\ UNCHANGED <<args, custom_module, accounts, auto_scan_at_startup, app,
                   pipeline_status, lock_holder, should_start_autoscan,
                   storages, finalize_calls, raised, request, response>>

\* Lines 159-168: the winner creates and registers its scan task; the hook
\* yields and the worker serves.
StartAutoscan(w) ==
    /\ pc[w] = "after_lock"
    /\ IF should_start_autoscan[w]
       THEN /\ task' = [task EXCEPT ![w] = "running"]
            /\ created' = [created EXCEPT ![w] = @ + 1]
            /\ background_tasks' = [background_tasks EXCEPT ![w] = Add(@, TaskOf(w))]
       ELSE UNCHANGED <<task, created, background_tasks>>
    /\ yielded' = [yielded EXCEPT ![w] = TRUE]
    /\ pc' = [pc EXCEPT ![w] = "ready"]
    /\ UNCHANGED <<args, custom_module, accounts, auto_scan_at_startup, app,
                   pipeline_status, lock_holder, should_start_autoscan,
                   storages, finalize_calls, raised, request, response>>

\* Line 168: the server shuts the worker down; control returns into the hook.
Shutdown(w) ==
    /\ pc[w] = "ready"
    /\ pc' = [pc EXCEPT ![w] = "finally"]
    /\ UNCHANGED <<args, custom_module, accounts, auto_scan_at_startup, app,
                   pipeline_status, lock_holder, should_start_autoscan,
                   background_tasks, task, created, storages, finalize_calls,
                   yielded, request, response,
                   raised>>

\* Lines 170-172: the finally block.
FinalizeStorages(w) ==
    /\ pc[w] = "finally"
    /\ storages' = [storages EXCEPT ![w] = "finalized"]
    /\ finalize_calls' = [finalize_calls EXCEPT ![w] = @ + 1]
    /\ pc' = [pc EXCEPT ![w] = "stopped"]
    /\ UNCHANGED <<args, custom_module, accounts, auto_scan_at_startup, app,
                   pipeline_status, lock_holder, should_start_autoscan,
                   background_tasks, task, created, yielded, request, response,
                   raised>>

\* Mutant: the hook awaits its task, so an error of the task is raised in
\* the hook and ends the worker's serving.
TaskEndsInHook(w, how) ==
    /\ task[w] = "running"
    /\ task' = [task EXCEPT ![w] = how]
    /\ pc' = [pc EXCEPT ![w] = IF how = "failed" /\ @ = "ready" THEN "finally" ELSE @]
    /\ UNCHANGED <<args, custom_module, accounts, auto_scan_at_startup, app,
                   pipeline_status, lock_holder, should_start_autoscan,
                   background_tasks, created, storages, finalize_calls,
                   yielded, raised, request, response>>

\* Line 161: the task created there ends in state `how`. Nothing awaits it:
\* its result or error stays in the task.
TaskEnds(w, how) ==
    /\ task[w] = "running"
    /\ task' = [task EXCEPT ![w] = how]
    /\ UNCHANGED <<args, custom_module, accounts, auto_scan_at_startup, pc, app,
                   pipeline_status, lock_holder, should_start_autoscan,
                   background_tasks, created, storages, finalize_calls,
                   yielded, raised, request, response>>

\* set.discard
Discard(tasks, t) == tasks \ {t}

\* Line 163: the done callback, which the event loop calls once the task
\* has ended, discards the task from app.state.background_tasks.
DoneCallback(w) ==
    /\ task[w] \in TerminalStates
    /\ TaskOf(w) \in background_tasks[w]
    /\ background_tasks' = [background_tasks EXCEPT ![w] = Discard(@, TaskOf(w))]
    /\ UNCHANGED <<args, custom_module, accounts, auto_scan_at_startup, pc, app,
                   pipeline_status, lock_holder, should_start_autoscan,
                   task, created, storages, finalize_calls, yielded, raised,
                   request, response>>

\* run_scanning_process returns.
ScanFinishes(w) == TaskEnds(w, "finished")

\* run_scanning_process raises.
ScanFails(w) == TaskEnds(w, "failed")

\* The hook never cancels its task: a task that still runs when the hook has
\* returned is cancelled when the worker's event loop is closed.
ScanCancelled(w) == pc[w] = "stopped" /\ TaskEnds(w, "cancelled")

----------------------------------------------------------------------------
(* /login and /auth-status.                                                *)

Usernames == {"alice", "bob"}
Passwords == {"secret", "wrong"}

\* auth_handler.accounts: the tables over these users, the empty one included.
AccountTables == UNION {[D -> Passwords] : D \in SUBSET Usernames}

\* auth_handler.create_token(username, role, metadata): the token is
\* modelled by the claims it carries.
create_token(username, role, auth_mode) ==
    [sub |-> username, role |-> role, auth_mode |-> auth_mode]

NoToken == [sub |-> None, role |-> None, auth_mode |-> None]

NoRequest == [op |-> None, username |-> None, password |-> None]
NoResponse ==
    [status_code |-> 0, detail |-> None, access_token |-> NoToken,
     auth_mode |-> None, auth_configured |-> None]

\* Mutant: only the username is looked up.
CredentialsMatchKnownUser(acc, username, password) == username \in DOMAIN acc

\* Line 524: auth_handler.accounts.get(username) != form_data.password, negated.
CredentialsMatch(acc, username, password) == Get(acc, username, None) = password

\* login, lines 506-541.
LoginResponse(acc, username, password) ==
    IF DOMAIN acc = {}
    THEN [status_code |-> 200, detail |-> None,
          access_token |-> create_token("guest", "guest", "disabled"),
          auth_mode |-> "disabled", auth_configured |-> None]
    ELSE IF ~CredentialsMatch(acc, username, password)
    THEN [status_code |-> 401, detail |-> "Incorrect credentials",
          access_token |-> NoToken, auth_mode |-> None, auth_configured |-> None]
    ELSE [status_code |-> 200, detail |-> None,
          access_token |-> create_token(username, "user", "enabled"),
          auth_mode |-> "enabled", auth_configured |-> None]

\* Mutant: the test of line 480 is missing, every caller gets a guest token.
AuthStatusAlwaysGuest(acc) ==
    [status_code |-> 200, detail |-> None,
     access_token |-> create_token("guest", "guest", "disabled"),
     auth_mode |-> "disabled", auth_configured |-> "False"]

\* get_auth_status, lines 476-504.
AuthStatusResponse(acc) ==
    IF DOMAIN acc = {}
    THEN [status_code |-> 200, detail |-> None,
          access_token |-> create_token("guest", "guest", "disabled"),
          auth_mode |-> "disabled", auth_configured |-> "False"]
    ELSE [status_code |-> 200, detail |-> None,
          access_token |-> NoToken,
          auth_mode |-> "enabled", auth_configured |-> "True"]

\* POST /login served by worker w.
Login(w) ==
    /\ pc[w] = "ready"
    /\ \E u \in Usernames, p \in Passwords :
        /\ request' = [op |-> "login", username |-> u, password |-> p]
        /\ response' = LoginResponse(accounts, u, p)
    /\ UNCHANGED <<args, custom_module, accounts, auto_scan_at_startup, pc, app,
                   pipeline_status, lock_holder, should_start_autoscan,
                   background_tasks, task, created, storages, finalize_calls,
                   yielded,
                   raised>>

\* GET /auth-status served by worker w.
AuthStatus(w) ==
    /\ pc[w] = "ready"
    /\ request' = [op |-> "auth-status", username |-> None, password |-> None]
    /\ response' = AuthStatusResponse(accounts)
    /\ UNCHANGED <<args, custom_module, accounts, auto_scan_at_startup, pc, app,
                   pipeline_status, lock_holder, should_start_autoscan,
                   background_tasks, task, created, storages, finalize_calls,
                   yielded,
                   raised>>

----------------------------------------------------------------------------
(* Specifications.                                                         *)

\* The state of every worker before create_app, and of the shared namespace
\* before any worker initialized it.
InitWorkers ==
    /\ auto_scan_at_startup \in [Workers -> BOOLEAN]
    /\ pc = [w \in Workers |-> "new"]
    /\ app = [w \in Workers |-> NoApp]
    /\ pipeline_status = EmptyDict
    /\ lock_holder = 0
    /\ should_start_autoscan = [w \in Workers |-> FALSE]
    /\ background_tasks = [w \in Workers |-> {}]
    /\ task = [w \in Workers |-> "none"]
    /\ created = [w \in Workers |-> 0]
    /\ storages = [w \in Workers |-> "closed"]
    /\ finalize_calls = [w \in Workers |-> 0]
    /\ yielded = [w \in Workers |-> FALSE]
    /\ raised = [w \in Workers |-> None]
    /\ request = NoRequest
    /\ response = NoResponse

\* A deployment with a supported configuration and no custom module.
DefaultArgs ==
    [llm_binding |-> "ollama", embedding_binding |-> "ollama",
     use_custom_bindings |-> FALSE, embedding_dim |-> 1024,
     max_embed_tokens |-> 8192]

Lifespan(w) ==
    \/ CreateApp(w)
    \/ InitializeStorages(w)
    \/ InitializePipelineStatus(w)
    \/ AcquireLock(w)
    \/ CheckAndSetUnderLock(w)
    \/ StartAutoscan(w)
    \/ Shutdown(w)
    \/ FinalizeStorages(w)
    \/ ScanFinishes(w)
    \/ ScanFails(w)
    \/ ScanCancelled(w)
    \/ DoneCallback(w)

\* The workers of one deployment, started concurrently.
Init ==
    /\ args = DefaultArgs
    /\ custom_module = NotImportable
    /\ accounts = [u \in {} |-> None]
    /\ InitWorkers

Next == \E w \in Workers : Lifespan(w)

Spec == Init /\ [][Next]_vars

\* One worker under every configuration and custom module.
InitResolve ==
    /\ args \in ArgsValues
    /\ custom_module \in CustomModuleValues
    /\ accounts = [u \in {} |-> None]
    /\ InitWorkers

NextResolve == Lifespan(1)

SpecResolve == InitResolve /\ [][NextResolve]_vars

\* One worker serving /login and /auth-status under every account table.
InitAuth ==
    /\ args = DefaultArgs
    /\ custom_module = NotImportable
    /\ accounts \in AccountTables
    /\ InitWorkers

NextAuth == Lifespan(1) \/ Login(1) \/ AuthStatus(1)

SpecAuth == InitAuth /\ [][NextAuth]_vars

\* The steps of worker w from create_app to the yield of its hook. The
\* worker's event loop runs each of them once it can be taken; nothing
\* obliges the scan task to end or the server to shut down.
Startup(w) ==
    \/ CreateApp(w)
    \/ InitializeStorages(w)
    \/ InitializePipelineStatus(w)
    \/ AcquireLock(w)
    \/ CheckAndSetUnderLock(w)
    \/ StartAutoscan(w)

\* The workers of one deployment, all with auto-scan enabled.
InitLive ==
    /\ Init
    /\ \A w \in Workers : auto_scan_at_startup[w]

SpecLive ==
    /\ InitLive
    /\ [][Next]_vars
    /\ \A w \in Workers : WF_vars(Startup(w))

----------------------------------------------------------------------------
(* Properties of the startup/shutdown hook, checked under Spec.            *)

Autoscanned == Get(pipeline_status, "autoscanned", FALSE)

\* The workers that set should_start_autoscan, and those that created a task.
Winners == {w \in Workers : should_start_autoscan[w]}
TaskCreators == {w \in Workers : created[w] > 0}

\* Worker w left the lock block normally.
PassedLockBlock(w) == pc[w] = "after_lock" \/ yielded[w]

\* C1: among the workers that run the hook with auto-scan enabled, at most
\* one ever sets should_start_autoscan, and as soon as one of them has left
\* the lock block exactly one has; a worker creates a scan task (one, once)
\* exactly when it set should_start_autoscan and went on to line 161.
C1_ExactlyOneWorkerStartsScan ==
    /\ Cardinality(Winners) <= 1
    /\ Cardinality(TaskCreators) <= 1
    /\ ((\E w \in Workers : auto_scan_at_startup[w] /\ PassedLockBlock(w))
            => Cardinality(Winners) = 1)
    /\ \A w \in Workers :
          created[w] = IF should_start_autoscan[w] /\ yielded[w] THEN 1 ELSE 0

\* All workers ran the hook with auto-scan enabled and serve; one created a task.
C1_Witness ==
    /\ \A w \in Workers : auto_scan_at_startup[w] /\ pc[w] = "ready"
    /\ Cardinality(TaskCreators) = 1

\* C2: a worker whose auto_scan_at_startup is false never sets
\* should_start_autoscan, never creates a task, and none of its steps changes
\* the value of pipeline_status["autoscanned"].
C2_DisabledWorkerLeavesAutoscanned ==
    /\ [](\A w \in Workers :
            ~auto_scan_at_startup[w] =>
                /\ ~should_start_autoscan[w]
                /\ created[w] = 0
                /\ task[w] = "none"
                /\ background_tasks[w] = {})
    /\ [][\A w \in Workers :
            (~auto_scan_at_startup[w] /\ pc'[w] # pc[w]) =>
                Get(pipeline_status', "autoscanned", FALSE) = Autoscanned]_vars

\* A disabled worker serves, having passed the lock block before any worker
\* set the flag, while another worker has set it since.
C2_Witness ==
    \E w, v \in Workers :
        /\ ~auto_scan_at_startup[w]
        /\ pc[w] = "ready"
        /\ should_start_autoscan[v]
        /\ Autoscanned

\* C3: once pipeline_status["autoscanned"] is true, no step makes it false.
C3_AutoscannedStaysTrue ==
    [][Autoscanned => Get(pipeline_status', "autoscanned", FALSE)]_vars

\* The flag is set, the scan task failed, its worker stopped, and a worker
\* that started later has gone through the lock block.
C3_Witness ==
    /\ Autoscanned
    /\ \E w, v \in Workers :
          /\ task[w] = "failed"
          /\ pc[w] = "stopped"
          /\ v # w
          /\ auto_scan_at_startup[v]
          /\ pc[v] = "ready"

\* C4: when a worker's storages are finalized, no scan task it registered is
\* still running.
C4_FinalizeAfterTasksTerminal ==
    \A w \in Workers :
        storages[w] = "finalized" =>
            /\ task[w] # "running"
            /\ background_tasks[w] = {}

----------------------------------------------------------------------------
(* Properties of the binding selection, checked under SpecResolve.         *)

\* The custom completion function is what create_app resolved for worker w.
CustomLLMResolved(w) == app[w].final_llm_func_to_use = "gemini_llm_complete_func"

\* The override is requested and the custom completion function was imported
\* and is not None.
CustomLLMSupplied ==
    /\ args.use_custom_bindings
    /\ custom_module.custom_functions_available
    /\ custom_module.gemini_llm_complete_func # None

CustomEmbeddingSupplied ==
    /\ args.use_custom_bindings
    /\ custom_module.custom_functions_available
    /\ custom_module.jina_embedding_func.kind # None

\* C5: without the custom completion function, the assembled keyword
\* arguments hold neither host nor api_key for azure_openai and gemini, both
\* for lollms, ollama and openai, and api_version exactly for azure_openai.
C5_KwargsPerProvider ==
    \A w \in Workers :
        (app[w].status = "ok" /\ ~CustomLLMResolved(w)) =>
            LET k == app[w].llm_kwargs_for_rag
                b == args.llm_binding
            IN  /\ b \in {"azure_openai", "gemini"} =>
                      "host" \notin k /\ "api_key" \notin k
                /\ b \in {"lollms", "ollama", "openai"} =>
                      {"host", "api_key"} \subseteq k
                /\ "api_version" \in k <=> b = "azure_openai"

\* The app was built for gemini without the custom completion function.
C5_Witness ==
    \E w \in Workers :
        /\ app[w].status = "ok"
        /\ ~CustomLLMResolved(w)
        /\ args.llm_binding = "gemini"

\* C6: with a provider outside its side's supported list, create_app raises:
\* no app exists, the hook never runs and the worker never serves.
C6_UnsupportedProviderFailsFast ==
    \A w \in Workers :
        (\/ args.llm_binding \notin supported_llm_bindings
         \/ args.embedding_binding \notin supported_embedding_bindings) =>
            /\ app[w].status \in {"none", "error"}
            /\ pc[w] \in {"new", "config_error"}
            /\ ~yielded[w]
            /\ storages[w] = "closed"
            /\ finalize_calls[w] = 0

\* create_app raised on an unsupported embedding binding although both
\* custom functions were there to be used.
C6_Witness ==
    \E w \in Workers :
        /\ pc[w] = "config_error"
        /\ args.llm_binding \in supported_llm_bindings
        /\ args.embedding_binding \notin supported_embedding_bindings
        /\ CustomLLMSupplied
        /\ CustomEmbeddingSupplied

\* C7: when no custom function is selected, every pair of supported
\* providers resolves to a completion and an embedding callable: create_app
\* raises no error.
C7_SelectionTotalOnSupported ==
    \A w \in Workers :
        (/\ pc[w] # "new"
         /\ ~CustomLLMSupplied
         /\ ~CustomEmbeddingSupplied
         /\ args.llm_binding \in supported_llm_bindings
         /\ args.embedding_binding \in supported_embedding_bindings) =>
            /\ app[w].status = "ok"
            /\ app[w].final_llm_func_to_use # None
            /\ app[w].final_embedding_func_to_use.func # None

\* What C8 says of the LLM selection made by create_app in worker w.
LLMOverrideRule(w) ==
    /\ CustomLLMResolved(w) <=> CustomLLMSupplied
    /\ ~CustomLLMSupplied =>
          /\ app[w].final_llm_func_to_use = ProviderLLMFunc(args.llm_binding)
          /\ app[w].final_llm_func_to_use = None =>
                app[w].error = "Unsupported or misconfigured llm_binding"
          /\ ("custom LLM function is not available" \in app[w].warnings)
                <=> args.use_custom_bindings
    /\ CustomLLMSupplied =>
          "custom LLM function is not available" \notin app[w].warnings

\* C8 as stated: for every value of args.llm_binding (the embedding binding
\* being a supported one), the custom completion function is the resolved
\* callable exactly when the override is requested and the function supplied.
C8_OverrideForEveryProviderValue ==
    \A w \in Workers :
        (/\ pc[w] # "new"
         /\ args.embedding_binding \in supported_embedding_bindings) =>
            (CustomLLMResolved(w) <=> CustomLLMSupplied)

\* C8, amended: the rule holds for every configuration that passes the
\* check of lines 107-111.
C8_OverrideForSupportedBindings ==
    \A w \in Workers :
        (/\ pc[w] # "new"
         /\ args.llm_binding \in supported_llm_bindings
         /\ args.embedding_binding \in supported_embedding_bindings) =>
            LLMOverrideRule(w)

\* The override was requested without a custom completion function, and
\* selection fell through to the provider.
C8_Witness ==
    \E w \in Workers :
        /\ app[w].status = "ok"
        /\ args.use_custom_bindings
        /\ ~CustomLLMSupplied
        /\ app[w].final_llm_func_to_use = "openai_alike_model_complete"

\* The custom embedding function is what create_app resolved for worker w.
CustomEmbeddingResolved(w) ==
    app[w].status = "ok" /\ CustomEmbeddingSupplied

Declared(n) == n \in DOMAIN custom_module.constants

\* C9 as stated: with the custom embedding function selected, each declared
\* constant is the resolved value, and a static default is the resolved
\* value only when the source declares no constant.
C9_DeclaredConstantsWin ==
    \A w \in Workers :
        CustomEmbeddingResolved(w) =>
            LET f == app[w].final_embedding_func_to_use
            IN  /\ Declared("JINA_EMBEDDING_DIM") =>
                      f.embedding_dim = custom_module.constants["JINA_EMBEDDING_DIM"]
                /\ Declared("JINA_MAX_TOKEN_SIZE") =>
                      f.max_token_size = custom_module.constants["JINA_MAX_TOKEN_SIZE"]
                /\ (\/ f.embedding_dim = args.embedding_dim
                    \/ f.max_token_size = args.max_embed_tokens) =>
                      DOMAIN custom_module.constants = {}

\* C9, amended: a custom function that is a raw callable is wrapped with the
\* two declared constants when the source declares both, and with the two
\* static defaults when either is missing; a custom function that already is
\* an EmbeddingFunc keeps its own embedding_dim and max_token_size.
C9_DeclaredPairWinsForRawCallable ==
    \A w \in Workers :
        CustomEmbeddingResolved(w) =>
            LET f == app[w].final_embedding_func_to_use
                j == custom_module.jina_embedding_func
            IN  IF j.kind = "EmbeddingFunc"
                THEN /\ f.embedding_dim = j.embedding_dim
                     /\ f.max_token_size = j.max_token_size
                ELSE IF Declared("JINA_EMBEDDING_DIM") /\ Declared("JINA_MAX_TOKEN_SIZE")
                THEN /\ f.embedding_dim = custom_module.constants["JINA_EMBEDDING_DIM"]
                     /\ f.max_token_size = custom_module.constants["JINA_MAX_TOKEN_SIZE"]
                ELSE /\ f.embedding_dim = args.embedding_dim
                     /\ f.max_token_size = args.max_embed_tokens

\* A raw custom callable was wrapped with the declared 512 while the static
\* default is 1024.
C9_Witness ==
    \E w \in Workers :
        /\ CustomEmbeddingResolved(w)
        /\ custom_module.jina_embedding_func.kind = "callable"
        /\ app[w].final_embedding_func_to_use.embedding_dim = 512
        /\ args.embedding_dim = 1024

----------------------------------------------------------------------------
(* Properties of /login, checked under SpecAuth.                           *)

Unauthorized ==
    [status_code |-> 401, detail |-> "Incorrect credentials",
     access_token |-> NoToken, auth_mode |-> None, auth_configured |-> None]

\* C10: with a non-empty account table, login answers with a token of role
\* user exactly when the username is in the table with the password given;
\* every other login gets one and the same 401 response.
C10_LoginChecksCredentials ==
    (request.op = "login" /\ DOMAIN accounts # {}) =>
        LET good == /\ request.username \in DOMAIN accounts
                    /\ accounts[request.username] = request.password
        IN  /\ (response.status_code = 200 /\ response.access_token.role = "user")
                  <=> good
            /\ good => response.access_token.sub = request.username
            /\ ~good => response = Unauthorized

\* An unknown username was refused by a table that holds another account.
C10_Witness ==
    /\ request.op = "login"
    /\ DOMAIN accounts # {}
    /\ request.username \notin DOMAIN accounts
    /\ response.status_code = 401

\* C11: with an empty account table every login gets a guest token with
\* auth_mode disabled, and /auth-status answers auth_configured false with a
\* guest token; with a non-empty table /auth-status answers auth_configured
\* true, auth_mode enabled and no access token.
C11_GuestAccessWhenAuthDisabled ==
    /\ (request.op = "login" /\ DOMAIN accounts = {}) =>
          /\ response.status_code = 200
          /\ response.access_token.role = "guest"
          /\ response.access_token.auth_mode = "disabled"
          /\ response.auth_mode = "disabled"
    /\ request.op = "auth-status" =>
          IF DOMAIN accounts = {}
          THEN /\ response.auth_configured = "False"
               /\ response.access_token.role = "guest"
               /\ response.auth_mode = "disabled"
          ELSE /\ response.auth_configured = "True"
               /\ response.auth_mode = "enabled"
               /\ response.access_token = NoToken

\* /auth-status was served under a table that holds an account.
C11_Witness ==
    /\ request.op = "auth-status"
    /\ DOMAIN accounts # {}
    /\ response.status_code = 200

----------------------------------------------------------------------------
(* Further properties of the startup/shutdown hook.                        *)

\* C12: once a scan task has failed, the flag is still set, the failed task
\* is the only one ever created and no worker creates another; the step in
\* which the task fails leaves its worker where it was, serving included.
C12_FailedScanIsNotRetried ==
    /\ [](\A w \in Workers :
            task[w] = "failed" => Autoscanned /\ TaskCreators = {w})
    /\ [][(\E w \in Workers : task[w] = "failed") => created' = created]_vars
    /\ [][\A w \in Workers :
            (task[w] = "running" /\ task'[w] = "failed") =>
                pc'[w] = pc[w] /\ raised'[w] = raised[w]]_vars

\* The scan task failed, its worker still serves, and another worker with
\* auto-scan enabled serves without having created a task.
C12_Witness ==
    \E w, v \in Workers :
        /\ task[w] = "failed"
        /\ pc[w] = "ready"
        /\ v # w
        /\ auto_scan_at_startup[v]
        /\ pc[v] = "ready"
        /\ created[v] = 0

\* C13: a worker whose initialization or read of the pipeline_status
\* namespace raised has not yielded and has no scan task; it is in, or
\* past, the finally block with that error still propagating.
C13_NamespaceFailureIsFatal ==
    \A w \in Workers :
        raised[w] = "pipeline_status" =>
            /\ ~yielded[w]
            /\ pc[w] \in {"finally", "stopped"}
            /\ ~should_start_autoscan[w]
            /\ created[w] = 0
            /\ task[w] = "none"
            /\ background_tasks[w] = {}

\* The namespace failed for a worker whose storages had been initialized,
\* and the worker's hook has ended.
C13_Witness ==
    \E w \in Workers :
        /\ raised[w] = "pipeline_status"
        /\ pc[w] = "stopped"

\* C14: the lock is held by a worker exactly while it is in the lock block,
\* by at most one worker at a time; a worker that left the block, normally
\* or by an error, that serves or whose task runs does not hold it.
C14_LockHeldOnlyAroundCheckAndSet ==
    /\ Cardinality({w \in Workers : pc[w] = "locked"}) <= 1
    /\ \A w \in Workers :
          /\ lock_holder = w <=> pc[w] = "locked"
          /\ (\/ task[w] = "running"
              \/ raised[w] # None
              \/ pc[w] \in {"after_lock", "ready", "finally", "stopped"})
                => lock_holder # w

\* A worker left the lock block by an error, and another worker holds the
\* lock since.
C14_Witness ==
    \E w, v \in Workers :
        /\ raised[w] = "lock_block"
        /\ v # w
        /\ lock_holder = v

\* C15: with auto-scan enabled, every worker whose startup raises no error
\* eventually yields, whether or not the scan task ever ends.
C15_EveryWorkerBecomesReady ==
    \A w \in Workers : <>(yielded[w] \/ raised[w] # None)

\* Every worker serves while the winner's scan task is still running.
C15_Witness ==
    /\ \A w \in Workers : pc[w] = "ready"
    /\ \E w \in Workers : task[w] = "running"

\* C16 as stated: background_tasks holds exactly the created tasks that
\* have not reached a terminal state.
C16_SetHoldsExactlyRunningTasks ==
    \A w \in Workers :
        background_tasks[w] = {t \in {TaskOf(w)} : task[w] = "running"}

\* C16, amended: background_tasks holds only the task its worker created,
\* holds it as long as it runs, loses it only once it has reached a terminal
\* state, and never holds more than one task.
C16_SetHoldsCreatedTaskUntilCallback ==
    /\ [](\A w \in Workers :
            /\ background_tasks[w] \subseteq {t \in {TaskOf(w)} : created[w] = 1}
            /\ task[w] = "running" => TaskOf(w) \in background_tasks[w]
            /\ Cardinality(background_tasks[w]) <= 1)
    /\ [][\A w \in Workers :
            (TaskOf(w) \in background_tasks[w] /\ TaskOf(w) \notin background_tasks'[w])
                => task[w] \in TerminalStates]_vars

\* A task has ended and its done callback has discarded it.
C16_Witness ==
    \E w \in Workers :
        /\ task[w] = "finished"
        /\ created[w] = 1
        /\ background_tasks[w] = {}

\* C17: finalize_storages has been called once when the hook has ended, on
\* whatever path, and not before.
C17_FinalizeOnceOnEveryExit ==
    \A w \in Workers :
        finalize_calls[w] = IF pc[w] = "stopped" THEN 1 ELSE 0

\* Storages were finalized although initialize_storages had raised.
C17_Witness ==
    \E w \in Workers :
        /\ raised[w] = "initialize_storages"
        /\ pc[w] = "stopped"
        /\ finalize_calls[w] = 1
        /\ storages[w] = "finalized"

====
